---- MODULE Spec2Model ----
(***************************************************************************)
(* A model of pyverbplt.load_plt (src/pyverbplt.py): the scan of a plt     *)
(* file for zone markers, the zone selection, the header parse, the        *)
(* forward-only read of the selected zones, the assembly of the arrays,    *)
(* the optional transforms and the packaging of the result.                *)
(*                                                                         *)
(* A file is a sequence of lines.  A line is a record whose kind says      *)
(* which of the tests of the code it passes: "comment" starts with '#',    *)
(* "variables" contains VARIABLES, "zone" contains ZONE, "data" is a row   *)
(* of numbers, "other" is none of these.  File line indices are 0-based    *)
(* as in the code; file[i + 1] is line i.                                  *)
(***************************************************************************)
EXTENDS Integers, Sequences, FiniteSets, TLC

VARIABLES
    file,          \* the content of filename, or NoFile
    pc,            \* the block of load_plt that runs next
    first_zone,    \* argument
    n_zones,       \* argument: <<>> is None, <<n>> is the integer n
    skip_zones,    \* argument
    permute,       \* argument
    squeeze,       \* argument
    make3D,        \* argument
    varout,        \* argument
    zones,         \* line indices of the zone markers (scanned, then selected)
    zone_lines,    \* the marker lines themselves (scanned, then selected)
    zone_0,        \* line index of the first scanned marker
    pos,           \* lines consumed from the open stream (the file object)
    line_counter,  \* the code's own count of the lines consumed
    skipped,       \* argument of range() in the last skip loop
    lines,         \* file indices of the lines last read into `lines`
    comments,      \* header comments
    variables,     \* declared variable names
    z,             \* loop index of the zone loop
    dimensions,    \* dimensions of the first selected zone
    lines_number,  \* their product
    data_zone,     \* shape of the matrix np.loadtxt gave for the last zone
    data,          \* the variable records
    result         \* what the call gave: a warning, an exception or a value

vars == <<file, pc, first_zone, n_zones, skip_zones, permute, squeeze, make3D,
          varout, zones, zone_lines, zone_0, pos, line_counter, skipped, lines,
          comments, variables, z, dimensions, lines_number, data_zone, data,
          result>>

(***************************************************************************)
(* Bounds of the model.                                                    *)
(***************************************************************************)
MaxZones == 3   \* zone blocks in a file: 0..MaxZones
MaxCells == 4   \* I*J*K of a zone: 1..MaxCells
MaxCount == 2   \* n_zones: None or 1..MaxCount
MaxSkip == 1    \* skip_zones: 0..MaxSkip
MaxLong == 5    \* zone blocks in the long plain files: MaxZones+1..MaxLong

\* filename names no file
NoFile == <<[kind |-> "missing"]>>

Min(a, b) == IF a < b THEN a ELSE b

Max(a, b) == IF a < b THEN b ELSE a

RECURSIVE Prod(_)
Prod(s) == IF s = <<>> THEN 1 ELSE Head(s) * Prod(Tail(s))

(***************************************************************************)
(* The files.  Every data row of a file holds `cols` numbers; the number   *)
(* in column c of file line l is NumberAt(l, c), so no two cells of a file *)
(* hold the same number and none holds the 0 of np.zeros.  Zone i of the   *)
(* file carries the label T = i.  All zones declare the same I, J, K and   *)
(* hold I*J*K rows (spec.md section 1 leaves mismatches to the caller).    *)
(***************************************************************************)
NumberAt(l, c) == 10 * (l + 1) + c

VariablesLine(names) == [kind |-> "variables", names |-> names]

ZoneLine(i, dims) == [kind |-> "zone", T |-> i, I |-> dims[1], J |-> dims[2], K |-> dims[3]]

DataLine(cols) == [kind |-> "data", cols |-> cols]

HeaderLine(k, names) == IF k = "variables" THEN VariablesLine(names) ELSE [kind |-> k]

HeaderLines(ks, names) == [n \in 1..Len(ks) |-> HeaderLine(ks[n], names)]

ZoneBlock(i, dims, cols, trailer, names) ==
    <<ZoneLine(i, dims)>> \o [r \in 1..Prod(dims) |-> DataLine(cols)]
        \o HeaderLines(trailer, names)

RECURSIVE ZoneBlocks(_, _, _, _, _)
ZoneBlocks(n, dims, cols, trailer, names) ==
    IF n = 0 THEN <<>>
    ELSE ZoneBlocks(n - 1, dims, cols, trailer, names)
            \o ZoneBlock(n - 1, dims, cols, trailer, names)

\* header: the kinds of the lines before the first marker;
\* trailer: the kinds of the lines that follow each zone's rows.
Layouts ==
    { [header |-> <<"variables">>, trailer |-> <<>>],
      [header |-> <<"comment", "variables">>, trailer |-> <<"comment">>],
      [header |-> <<"comment", "other">>, trailer |-> <<"variables">>],
      [header |-> <<"comment">>, trailer |-> <<>>],
      [header |-> <<>>, trailer |-> <<>>] }

\* declared names, and numbers per data row
Columns ==
    { [names |-> <<"A">>, cols |-> 1],
      [names |-> <<"A", "B">>, cols |-> 2],
      [names |-> <<"A", "B">>, cols |-> 1],
      [names |-> <<"A">>, cols |-> 2] }

Dimensions ==
    { d \in (1..MaxCells) \X (1..MaxCells) \X (1..MaxCells) : Prod(d) <= MaxCells }

MakeFile(lay, col, dims, n) ==
    HeaderLines(lay.header, col.names)
        \o ZoneBlocks(n, dims, col.cols, lay.trailer, col.names)

Plain == [header |-> <<"variables">>, trailer |-> <<>>]

OneColumn == [names |-> <<"A">>, cols |-> 1]

\* plain one-variable files with more zones, and one with a 3 x 1 x 4 zone
LongFiles ==
    { MakeFile(Plain, OneColumn, <<2, 1, 1>>, n) : n \in (MaxZones + 1)..MaxLong }
        \cup { MakeFile(Plain, OneColumn, <<3, 1, 4>>, 1) }

Files ==
    { MakeFile(lay, col, dims, n) :
        lay \in Layouts, col \in Columns, dims \in Dimensions, n \in 0..MaxZones }
        \cup LongFiles

(***************************************************************************)
(* _scan_plt_zones: one pass over the lines, `i` the index of the line in  *)
(* hand; returns the marker indices, the marker lines and the last i.      *)
(* With no line at all `i` is never bound and the return raises.           *)
(***************************************************************************)
RECURSIVE ScanFrom(_, _, _)
ScanFrom(f, i, acc) ==
    IF i >= Len(f) THEN acc
    ELSE ScanFrom(f, i + 1,
                  IF f[i + 1].kind = "zone"
                  THEN [zones |-> Append(acc.zones, i), lines |-> Append(acc.lines, f[i + 1])]
                  ELSE acc)

_scan_plt_zones(f) == ScanFrom(f, 0, [zones |-> <<>>, lines |-> <<>>])

(***************************************************************************)
(* A Python slice s[lo:hi:step] of a list, for 0 <= lo, 0 <= hi, 1 <= step *)
(* (hi = <<>> is an omitted stop), as CPython computes it: both ends are   *)
(* clipped to the length, then every step-th element is taken.             *)
(***************************************************************************)
SliceLen(lo, hi, step) == IF hi > lo THEN (hi - lo + step - 1) \div step ELSE 0

PySlice(s, lo, hi, step) ==
    LET start == Min(lo, Len(s))
        stop == IF hi = <<>> THEN Len(s) ELSE Min(hi[1], Len(s))
    IN  [n \in 1..SliceLen(start, stop, step) |-> s[start + (n - 1) * step + 1]]

Warn(reason) == [kind |-> "warning", reason |-> reason]

Raise(error) == [kind |-> "raise", error |-> error]

Running == [kind |-> "running"]

Init ==
    /\ file \in Files \cup {NoFile}
    /\ pc = "scan"
    \* an argument holds its default (line 4-5) until the block that reads it
    \* binds it to any value of its range
    /\ first_zone = 0
    /\ n_zones = <<>>
    /\ skip_zones = 0
    /\ permute = TRUE
    /\ squeeze = FALSE
    /\ make3D = FALSE
    /\ varout = TRUE
    /\ zones = <<>>
    /\ zone_lines = <<>>
    /\ zone_0 = 0
    /\ pos = 0
    /\ line_counter = 0
    /\ skipped = 0
    /\ lines = <<>>
    /\ comments = <<>>
    /\ variables = <<>>
    /\ z = 0
    /\ dimensions = <<>>
    /\ lines_number = 0
    /\ data_zone = <<>>
    /\ data = <<>>
    /\ result = Running

Finish(r) == pc' = "done" /\ result' = r

(***************************************************************************)
(* load_plt, lines 81-87: the existence test and the scan.                 *)
(***************************************************************************)
Scan ==
    /\ pc = "scan"
    /\ IF file = NoFile
       THEN Finish(Warn("SourceNotFound")) /\ UNCHANGED <<zones, zone_lines>>
       ELSE IF file = <<>>
       THEN Finish(Raise("UnboundLocalError")) /\ UNCHANGED <<zones, zone_lines>>
       ELSE /\ zones' = _scan_plt_zones(file).zones
            /\ zone_lines' = _scan_plt_zones(file).lines
            /\ pc' = "select"
            /\ UNCHANGED result
    /\ UNCHANGED <<file, first_zone, n_zones, skip_zones, permute, squeeze, make3D,
                   varout, zone_0, pos, line_counter, skipped, lines, comments,
                   variables, z, dimensions, lines_number, data_zone, data>>

(***************************************************************************)
(* load_plt, lines 97-106: the selected markers.                           *)
(***************************************************************************)
\* the mutant of the selection: the stop of the slice is n_zones itself
SelectUnscaledStop(zs, f, n, s) ==
    PySlice(PySlice(zs, f, <<>>, 1), 0, n, s + 1)

SelectZones(zs, f, n, s) ==
    PySlice(PySlice(zs, f, <<>>, 1), 0,
            IF n = <<>> THEN <<>> ELSE <<n[1] * (s + 1)>>, s + 1)

\* line 93
FirstZoneOutOfRange(f, zs) == f > Len(zs)

(***************************************************************************)
(* load_plt, lines 89-110: zone_0, the range test and the selection.       *)
(***************************************************************************)
Select ==
    /\ pc = "select"
    /\ \E f \in 0..(Len(zones) + 1), s \in 0..MaxSkip,
          n \in {<<>>} \cup {<<c>> : c \in 1..MaxCount} :
         /\ first_zone' = f
         /\ n_zones' = n
         /\ skip_zones' = s
         /\ IF zones = <<>>
            THEN Finish(Raise("IndexError")) /\ UNCHANGED <<zones, zone_lines, zone_0>>
            ELSE /\ zone_0' = zones[1]
                 /\ IF FirstZoneOutOfRange(f, zones)
                    THEN Finish(Warn("ZoneIndexOutOfRange"))
                         /\ UNCHANGED <<zones, zone_lines>>
                    ELSE /\ zones' = SelectZones(zones, f, n, s)
                         /\ zone_lines' = SelectZones(zone_lines, f, n, s)
                         /\ IF zones' = <<>>
                            THEN Finish(Warn("EmptySelection"))
                            ELSE pc' = "header" /\ UNCHANGED result
    /\ UNCHANGED <<file, permute, squeeze, make3D, varout, pos, line_counter, skipped,
                   lines, comments, variables, z, dimensions, lines_number, data_zone,
                   data>>

(***************************************************************************)
(* The stream: readline gives the next line and moves on, and gives ''     *)
(* without moving at the end of the file.  ReadLines(p, n) are the file    *)
(* indices of the lines n calls of readline give from position p.          *)
(***************************************************************************)
ReadLines(p, n) == [k \in 1..Min(n, Max(0, Len(file) - p)) |-> p + k - 1]

After(p, n) == Min(p + Max(0, n), Len(file))

(***************************************************************************)
(* load_plt, lines 120-136: the header parse over the lines read.          *)
(***************************************************************************)
RECURSIVE ParseHeader(_, _)
ParseHeader(ls, acc) ==
    IF ls = <<>> THEN acc
    ELSE LET line == file[Head(ls) + 1]
         IN  ParseHeader(Tail(ls),
                CASE line.kind = "comment" ->
                       [acc EXCEPT !.comments = Append(@, Head(ls))]
                  [] line.kind = "variables" ->
                       [acc EXCEPT !.variables = line.names]
                  [] OTHER -> acc)

\* the mutant of the header read: the lines up to the first selected marker
HeaderToSelectedMarker(z0) == zones[1] + 1

\* line 117: the lines read before the zone loop
HeaderLength(z0) == z0 + 1

(***************************************************************************)
(* load_plt, lines 112-141: open the file, read and parse the header.      *)
(***************************************************************************)
ReadHeader ==
    /\ pc = "header"
    /\ lines' = ReadLines(0, HeaderLength(zone_0))
    /\ pos' = After(0, HeaderLength(zone_0))
    /\ line_counter' = zone_0 + 1
    /\ LET h == ParseHeader(lines', [comments |-> <<>>, variables |-> <<>>])
       IN  /\ comments' = h.comments
           /\ variables' = h.variables
           /\ IF h.variables = <<>>
              THEN Finish(Warn("VariablesNotFound"))
              ELSE pc' = "zone" /\ UNCHANGED result
    /\ UNCHANGED <<file, first_zone, n_zones, skip_zones, permute, squeeze, make3D,
                   varout, zones, zone_lines, zone_0, skipped, z, dimensions,
                   lines_number, data_zone, data>>

(***************************************************************************)
(* Arrays.  An array is its shape and its elements, a function of the      *)
(* index tuples (0-based) of that shape.                                   *)
(***************************************************************************)
RECURSIVE Indices(_)
Indices(shape) ==
    IF shape = <<>> THEN {<<>>}
    ELSE {<<i>> \o rest : i \in 0..(Head(shape) - 1), rest \in Indices(Tail(shape))}

Front(s) == SubSeq(s, 1, Len(s) - 1)

Last(s) == s[Len(s)]

\* np.zeros
Zeros(shape) == [shape |-> shape, at |-> [idx \in Indices(shape) |-> 0]]

\* the mutant of the unravelling: the first axis varies fastest (order='F')
RECURSIVE UnravelFirstFastest(_, _)
UnravelFirstFastest(r, shape) ==
    IF shape = <<>> THEN <<>>
    ELSE <<r % Head(shape)>> \o UnravelFirstFastest(r \div Head(shape), Tail(shape))

\* the index tuple of the r-th element in C order: the last axis varies fastest
RECURSIVE UnravelIndex(_, _)
UnravelIndex(r, shape) ==
    IF shape = <<>> THEN <<>>
    ELSE UnravelIndex(r \div Last(shape), Front(shape)) \o <<r % Last(shape)>>

\* ndarray.reshape of a 1-D array to a shape of the same size
Reshape(vec, shape) ==
    [shape |-> shape,
     at |-> [idx \in Indices(shape) |->
                vec.at[<<CHOOSE r \in 0..(Prod(shape) - 1) : UnravelIndex(r, shape) = idx>>]]]

\* the places of the axes np.squeeze keeps
KeptAxes(shape) == {a \in 1..Len(shape) : shape[a] # 1}

RECURSIVE Ascending(_)
Ascending(S) ==
    IF S = {} THEN <<>>
    ELSE LET m == CHOOSE x \in S : \A y \in S : x <= y
         IN  <<m>> \o Ascending(S \ {m})

\* the mutant of np.squeeze: only the first axis of length 1 is removed
SqueezeFirstOnly(arr) ==
    LET ones == {a \in 1..Len(arr.shape) : arr.shape[a] = 1}
        drop == IF ones = {} THEN 0 ELSE CHOOSE a \in ones : \A b \in ones : a <= b
        kept == Ascending((1..Len(arr.shape)) \ {drop})
        shape == [n \in 1..Len(kept) |-> arr.shape[kept[n]]]
    IN  [shape |-> shape,
         at |-> [idx \in Indices(shape) |->
                    arr.at[[a \in 1..Len(arr.shape) |->
                              IF a = drop THEN 0
                              ELSE idx[CHOOSE n \in 1..Len(kept) : kept[n] = a]]]]]

\* np.squeeze: every axis of length 1 is removed, the others keep their order
Squeeze(arr) ==
    LET kept == Ascending(KeptAxes(arr.shape))
        shape == [n \in 1..Len(kept) |-> arr.shape[kept[n]]]
    IN  [shape |-> shape,
         at |-> [idx \in Indices(shape) |->
                    arr.at[[a \in 1..Len(arr.shape) |->
                              IF arr.shape[a] = 1 THEN 0
                              ELSE idx[CHOOSE n \in 1..Len(kept) : kept[n] = a]]]]]

\* ndarray.transpose(order): axis n of the result is axis order[n] of arr
\* (axes are numbered from 0 as in numpy)
Transpose(arr, order) ==
    LET shape == [n \in 1..Len(order) |-> arr.shape[order[n] + 1]]
    IN  [shape |-> shape,
         at |-> [idx \in Indices(shape) |->
                    arr.at[[a \in 1..Len(order) |->
                              idx[CHOOSE n \in 1..Len(order) : order[n] + 1 = a]]]]]

InsertAt(s, i, x) == SubSeq(s, 1, i) \o <<x>> \o SubSeq(s, i + 1, Len(s))

\* np.moveaxis builds the order: the axes that are not moved, in order, then each
\* pair (destination, source), sorted by destination, inserted at its destination
RECURSIVE InsertMoved(_, _, _)
InsertMoved(order, pairs, dests) ==
    IF dests = <<>> THEN order
    ELSE LET d == Head(dests)
             src == (CHOOSE pr \in pairs : pr[1] = d)[2]
         IN  InsertMoved(InsertAt(order, d, src), pairs, Tail(dests))

\* np.moveaxis(arr, source, destination)
MoveAxis(arr, source, destination) ==
    LET moved == {source[n] : n \in 1..Len(source)}
        rest == Ascending((0..(Len(arr.shape) - 1)) \ moved)
        pairs == {<<destination[n], source[n]>> : n \in 1..Len(source)}
        dests == Ascending({destination[n] : n \in 1..Len(destination)})
    IN  Transpose(arr, InsertMoved(rest, pairs, dests))

(***************************************************************************)
(* np.loadtxt on the lines read (file indices).  Lines that start with '#' *)
(* and the '' of an exhausted stream hold no row; a line that is not       *)
(* numbers raises ValueError.  The rows by columns matrix is returned with *)
(* its axes of length 1 removed (ndmin = 0); no row at all gives shape     *)
(* (0,).                                                                   *)
(***************************************************************************)
LoadTxt(ls) ==
    LET rows == SelectSeq(ls, LAMBDA l : file[l + 1].kind = "data")
        bad == \E n \in 1..Len(ls) : file[ls[n] + 1].kind \notin {"data", "comment"}
        cols == file[rows[1] + 1].cols
    IN  IF bad THEN [ok |-> FALSE, arr |-> Zeros(<<0>>)]
        ELSE IF rows = <<>> THEN [ok |-> TRUE, arr |-> Zeros(<<0>>)]
        ELSE [ok |-> TRUE,
              arr |-> Squeeze([shape |-> <<Len(rows), cols>>,
                               at |-> [idx \in Indices(<<Len(rows), cols>>) |->
                                          NumberAt(rows[idx[1] + 1], idx[2])]])]

\* data_zone[:, v] of a 2-D array
Column(m, v) ==
    [shape |-> <<m.shape[1]>>, at |-> [idx \in Indices(<<m.shape[1]>>) |-> m.at[<<idx[1], v>>]]]

\* arr[zi, :] = grid
StoreZone(arr, zi, grid) ==
    [arr EXCEPT !.at = [idx \in DOMAIN arr.at |->
                           IF idx[1] = zi THEN grid.at[Tail(idx)] ELSE arr.at[idx]]]

\* lines 158-163: one record per declared variable
NewData(vs, nz, dims) ==
    [v \in 1..Len(vs) |->
        [name |-> vs[v], arr |-> Zeros(<<nz>> \o dims), comment |-> comments,
         size1 |-> dims[1], size2 |-> dims[2], size3 |-> dims[3], zone |-> <<>>]]

(***************************************************************************)
(* load_plt, lines 176-182: store the zone's matrix m as zone zi, label T. *)
(* Gives the records and the exception raised on the way, if any.          *)
(***************************************************************************)
Assemble(d, m, dims, zi, T) ==
    IF Len(m.shape) = 1
    THEN IF Prod(m.shape) # Prod(dims)
         THEN [error |-> "ValueError", data |-> d]
         ELSE [error |-> "",
               data |-> [d EXCEPT ![1].arr = StoreZone(@, zi, Reshape(m, dims)),
                                  ![1].zone = Append(@, T)]]
    ELSE IF Len(m.shape) # 2
    THEN [error |-> "IndexError", data |-> d]
    ELSE IF m.shape[1] # Prod(dims)
    THEN [error |-> "ValueError", data |-> d]
    ELSE [error |-> IF Len(d) > m.shape[2] THEN "IndexError" ELSE "",
          data |-> [v \in 1..Len(d) |->
                      IF v > m.shape[2] THEN d[v]
                      ELSE [d[v] EXCEPT !.arr = StoreZone(@, zi, Reshape(Column(m, v - 1), dims)),
                                        !.zone = Append(@, T)]]]

\* the mutant of the counter update: the marker line is not counted
CounterWithoutMarker(zl, n) == zl + n

\* line 172
CounterAfterZone(zl, n) == zl + n + 1

(***************************************************************************)
(* load_plt, lines 144-182: one turn of the zone loop.                     *)
(***************************************************************************)
ReadZone ==
    /\ pc = "zone"
    /\ LET info == zone_lines[z + 1]
           dims == IF z = 0 THEN <<info.I, info.J, info.K>> ELSE dimensions
           n == IF z = 0 THEN Prod(dims) ELSE lines_number
           d0 == IF z = 0 THEN NewData(variables, Len(zones), dims) ELSE data
           sk == zones[z + 1] - line_counter + 1
           p1 == After(pos, sk)
           ls == ReadLines(p1, n)
           m == LoadTxt(ls)
           asm == Assemble(d0, m.arr, dims, z, info.T)
       IN  /\ dimensions' = dims
           /\ lines_number' = n
           /\ skipped' = sk
           /\ lines' = ls
           /\ pos' = After(p1, n)
           /\ IF ~m.ok
              THEN /\ Finish(Raise("ValueError"))
                   /\ data' = d0
                   /\ UNCHANGED <<line_counter, data_zone, z>>
              ELSE /\ data_zone' = m.arr
                   /\ line_counter' = CounterAfterZone(zones[z + 1], n)
                   /\ data' = asm.data
                   /\ IF asm.error # ""
                      THEN Finish(Raise(asm.error)) /\ UNCHANGED z
                      ELSE /\ z' = z + 1
                           /\ pc' = IF z + 1 < Len(zones) THEN "zone" ELSE "options"
                           /\ UNCHANGED result
    /\ UNCHANGED <<file, first_zone, n_zones, skip_zones, permute, squeeze, make3D,
                   varout, zones, zone_lines, zone_0, comments, variables>>

\* the mutant of the permutation: the spatial axes are rotated, not reversed
PermuteRotated == <<2, 3, 1>>

\* line 187: where the axes 1, 2, 3 go
PermuteDestination == <<3, 2, 1>>

\* lines 186-196 for one record
ApplyTo(rec, p, m3, sq) ==
    LET a1 == IF p THEN MoveAxis(rec.arr, <<1, 2, 3>>, PermuteDestination) ELSE rec.arr
        a2 == IF m3 THEN MoveAxis(a1, <<0>>, <<3>>) ELSE a1
        a3 == IF sq THEN Squeeze(a2) ELSE a2
    IN  [rec EXCEPT !.arr = a3,
                    !.size1 = IF p THEN dimensions[3] ELSE @,
                    !.size2 = IF p THEN dimensions[2] ELSE @,
                    !.size3 = IF p THEN dimensions[1] ELSE @]

(***************************************************************************)
(* load_plt, lines 184-196: the options, applied to every record.          *)
(***************************************************************************)
ApplyOptions ==
    /\ pc = "options"
    /\ \E p \in BOOLEAN, m3 \in BOOLEAN, sq \in BOOLEAN :
         /\ permute' = p
         /\ make3D' = m3
         /\ squeeze' = sq
         /\ data' = [v \in 1..Len(variables) |-> ApplyTo(data[v], p, m3, sq)]
    /\ pc' = "return"
    /\ UNCHANGED <<file, first_zone, n_zones, skip_zones, varout, zones, zone_lines,
                   zone_0, pos, line_counter, skipped, lines, comments, variables, z,
                   dimensions, lines_number, data_zone, result>>

\* the mutant of the packaging: a single record is unwrapped whatever varout is
PackageUnwrapAlways(d, vo) ==
    IF Len(d) = 1 THEN [kind |-> "record", value |-> d[1]]
    ELSE IF vo THEN [kind |-> "tuple", value |-> d]
    ELSE [kind |-> "list", value |-> d]

\* lines 198-205: what is returned
Package(d, vo) ==
    IF vo
    THEN IF Len(variables) = 1
         THEN [kind |-> "record", value |-> d[1]]
         ELSE [kind |-> "tuple", value |-> d]
    ELSE [kind |-> "list", value |-> d]

(***************************************************************************)
(* load_plt, lines 198-205: package and return.                            *)
(***************************************************************************)
Return ==
    /\ pc = "return"
    /\ \E vo \in BOOLEAN :
         /\ varout' = vo
         /\ Finish(Package(data, vo))
    /\ UNCHANGED <<file, first_zone, n_zones, skip_zones, permute, squeeze, make3D,
                   zones, zone_lines, zone_0, pos, line_counter, skipped, lines,
                   comments, variables, z, dimensions, lines_number, data_zone, data>>

Next == Scan \/ Select \/ ReadHeader \/ ReadZone \/ ApplyOptions \/ Return

Spec == Init /\ [][Next]_vars

(***************************************************************************)
(* What the properties speak of.                                           *)
(***************************************************************************)
\* the scanned marker indices of the file, whatever `zones` holds by now
Scanned == _scan_plt_zones(file).zones

\* a file whose lines were scanned
Readable == file # NoFile /\ file # <<>>

\* the selection parameters have been bound (Select has run)
Selecting == pc \notin {"scan", "select"}

\* the call returned records
Returned == pc = "done" /\ result.kind \in {"record", "tuple", "list"}

\* the file has a VARIABLES line among the lines first..last
VariablesWithin(first, last) ==
    \E l \in first..last : l < Len(file) /\ file[l + 1].kind = "variables"

\* I, J, K as the file declares them, and the numbers per data row
Declared == LET m == file[Scanned[1] + 1] IN <<m.I, m.J, m.K>>

RowLength == file[Scanned[1] + 2].cols

(***************************************************************************)
(* C1.  Zone selection: on L >= 1 scanned zones, with 0 <= first_zone <= L *)
(* the zones selected are exactly the scanned zones at the positions       *)
(* first_zone + k*(skip_zones+1) < L, k = 0, 1, ..., with k < n_zones when *)
(* n_zones is given; so at most n_zones zones are selected and their line  *)
(* indices strictly increase.                                              *)
(***************************************************************************)
SelectedPositions(L) ==
    { p \in 0..(L - 1) :
        \E k \in 0..L :
            /\ p = first_zone + k * (skip_zones + 1)
            /\ n_zones # <<>> => k < n_zones[1] }

C1_SelectionIsStrided ==
    Selecting =>
        LET scanned == Scanned
            want == Ascending(SelectedPositions(Len(scanned)))
        IN  (Len(scanned) >= 1 /\ first_zone <= Len(scanned)) =>
                /\ zones = [n \in 1..Len(want) |-> scanned[want[n] + 1]]
                /\ zone_lines = [n \in 1..Len(want) |-> file[scanned[want[n] + 1] + 1]]
                /\ n_zones # <<>> => Len(zones) <= n_zones[1]
                /\ \A a, b \in 1..Len(zones) : a < b => zones[a] < zones[b]

\* skip_zones=1, n_zones=2, first_zone=0 on 5 zones: positions 0 and 2 are read
C1_Witness ==
    /\ pc = "options"
    /\ Len(Scanned) = 5
    /\ first_zone = 0 /\ skip_zones = 1 /\ n_zones = <<2>>
    /\ zones = <<Scanned[1], Scanned[3]>>
    /\ data[1].zone = <<0, 2>>

(***************************************************************************)
(* C2.  Array assembly: before any transform, for every zone zi stored so  *)
(* far, every declared variable v that has a column in the file and every  *)
(* grid index (i, j, k), data[v][zi, i, j, k] is the number in column v of *)
(* data row (i*dim2 + j)*dim3 + k of that zone's block.                    *)
(***************************************************************************)
C2_RowMajorFill ==
    pc \in {"zone", "options"} =>
        LET dim1 == Declared[1]
            dim2 == Declared[2]
            dim3 == Declared[3]
            columns == RowLength
        IN  \A v \in 1..Len(data) : \A zi \in 0..(z - 1) :
                \A i \in 0..(dim1 - 1), j \in 0..(dim2 - 1), k \in 0..(dim3 - 1) :
                    v <= columns =>
                        data[v].arr.at[<<zi, i, j, k>>] =
                            NumberAt(zones[zi + 1] + 1 + (i * dim2 + j) * dim3 + k,
                                     v - 1)

\* two variables, one zone, I=2, J=2, K=1: both arrays are (1,2,2,1) and filled
C2_Witness ==
    /\ pc = "options"
    /\ Len(data) = 2 /\ RowLength = 2
    /\ Len(zones) = 1
    /\ Declared = <<2, 2, 1>>
    /\ data[1].arr.shape = <<1, 2, 2, 1>>
    /\ data[2].arr.shape = <<1, 2, 2, 1>>
    /\ data[2].arr.at[<<0, 1, 0, 0>>] = NumberAt(zones[1] + 3, 1)

(***************************************************************************)
(* The default options of load_plt (line 4-5), and the well-formed files   *)
(* with one variable: one name declared, one number per row.               *)
(***************************************************************************)
DefaultOptions ==
    /\ first_zone = 0 /\ n_zones = <<>> /\ skip_zones = 0
    /\ permute /\ ~squeeze /\ ~make3D /\ varout

OneVariableFile ==
    /\ Readable /\ Scanned # <<>>
    /\ variables = <<"A">>
    /\ RowLength = 1

SelectedLabels == [n \in 1..Len(zone_lines) |-> zone_lines[n].T]

C4_LabelsMatchZoneAxis ==
    Returned =>
        \A v \in 1..Len(data) : Len(data[v].zone) = Len(zones)

(***************************************************************************)
(* C5 as stated.  A file that declares exactly one variable gives the      *)
(* record itself whatever varout is; otherwise varout gives a tuple and    *)
(* no varout a list.                                                       *)
(***************************************************************************)
C5_SingleAlwaysUnwrapped ==
    Returned =>
        result.kind = IF Len(variables) = 1 THEN "record"
                      ELSE IF varout THEN "tuple" ELSE "list"

(***************************************************************************)
(* C5, amended.  With varout true a file that declares exactly one         *)
(* variable gives the record itself and any other file a tuple of the      *)
(* records in declaration order; with varout false every file, also one    *)
(* with a single variable, gives a list of the records in that order.      *)
(***************************************************************************)
C5_UnwrappedOnlyUnderVarout ==
    Returned =>
        /\ result.kind = IF ~varout THEN "list"
                         ELSE IF Len(variables) = 1 THEN "record" ELSE "tuple"
        /\ result.kind = "record" => result.value = data[1]
        /\ result.kind # "record" =>
              /\ result.value = data
              /\ [v \in 1..Len(data) |-> data[v].name] = variables

\* one variable and varout false: a list of one record
C5_Witness ==
    /\ Returned
    /\ ~varout
    /\ Len(variables) = 1
    /\ result.kind = "list"
    /\ Len(result.value) = 1

(***************************************************************************)
(* C6.  A file with a VARIABLES line and no zone marker ends in a soft     *)
(* failure: the call warns and returns nothing, it does not raise.         *)
(***************************************************************************)
C6_NoZonesIsSoftFailure ==
    (pc = "done" /\ Readable /\ Scanned = <<>> /\ VariablesWithin(0, Len(file))) =>
        result.kind = "warning"

(***************************************************************************)
(* C7.  On a scanned zone list of length L the call fails with             *)
(* ZoneIndexOutOfRange if and only if first_zone > L, and first_zone = L   *)
(* is reported as EmptySelection.                                          *)
(***************************************************************************)
C7_OutOfRangeIffBeyond ==
    (Selecting /\ Readable) =>
        /\ result = Warn("ZoneIndexOutOfRange") <=> first_zone > Len(Scanned)
        /\ first_zone = Len(Scanned) => result = Warn("EmptySelection")

C9_CursorTracksStream ==
    (pc \in {"zone", "options", "return"} \/ Returned) =>
        /\ line_counter = pos
        /\ skipped >= 0
        /\ z >= 1 =>
              /\ lines_number = zone_lines[1].I * zone_lines[1].J * zone_lines[1].K
              /\ lines = [n \in 1..lines_number |-> zones[z] + n]

\* zones were passed over before the first and between the selected zones
C9_Witness ==
    /\ pc = "options"
    /\ first_zone >= 1 /\ skip_zones >= 1
    /\ z >= 2
    /\ skipped > 1
    /\ lines = [n \in 1..lines_number |-> zones[z] + n]

(***************************************************************************)
(* C10.  The transforms: from the assembled shape (Z, d1, d2, d3), permute *)
(* gives (Z, d3, d2, d1), then make3D moves the zone axis to the last      *)
(* place, then squeeze removes every axis of length 1 and keeps the order  *)
(* of the others.                                                          *)
(***************************************************************************)
TransformedShape ==
    LET s0 == <<Len(zones)>> \o Declared
        s1 == IF permute THEN <<s0[1], s0[4], s0[3], s0[2]>> ELSE s0
        s2 == IF make3D THEN <<s1[2], s1[3], s1[4], s1[1]>> ELSE s1
    IN  IF squeeze THEN SelectSeq(s2, LAMBDA n : n # 1) ELSE s2

C10_TransformedShape ==
    (pc = "return" \/ Returned) =>
        LET shape == TransformedShape
        IN  \A v \in 1..Len(data) : data[v].arr.shape = shape

\* squeeze alone on shape (1,3,1,4) gives (3,4)
C10_Witness ==
    /\ pc = "return"
    /\ squeeze /\ ~permute /\ ~make3D
    /\ <<Len(zones)>> \o Declared = <<1, 3, 1, 4>>
    /\ data[1].arr.shape = <<3, 4>>
====
